---- MODULE Spec2Model ----
(***************************************************************************)
(* Flash write engine of the esptool flasher stub                          *)
(* (flasher_stub/stub_write_flash.c): the begin / data* / end session, the *)
(* erase-ahead scheduler and the streaming inflate pipeline.               *)
(*                                                                         *)
(* The build modelled is the ESP32S2_OR_LATER one (own SPIUnlock, the      *)
(* encrypted write path with its enable/disable latch).                    *)
(*                                                                         *)
(* Sizes are scaled down: a sector is FLASH_SECTOR_SIZE bytes, a block is  *)
(* SECTORS_PER_BLOCK sectors and the inflate output buffer holds           *)
(* OUT_BUF_SIZE bytes.  The code never depends on the actual values.       *)
(*                                                                         *)
(* A handler is one action when it cannot wait for the flash chip.  The    *)
(* data handlers spin on the chip's WIP bit: they are cut at these spin    *)
(* loops (pc), and the chip finishes its operation in the action           *)
(* flash_completes.                                                        *)
(***************************************************************************)
EXTENDS Integers, Sequences, FiniteSets, TLC

\* ---- sizes (scaled) and input bounds ----
FLASH_SECTOR_SIZE == 4
SECTORS_PER_BLOCK == 2
OUT_BUF_SIZE == 2
\* the compressed stream the host owns: CompLen bytes inflating to PlainLen
CompLen == 3
PlainLen == 4
\* largest offset / total_size / data length the host passes
MaxOffset == 4
MaxTotal == 6
MaxLen == 7

\* The uint32_t fields hold offsets and sizes of a flash chip (24-bit
\* addresses, line 202), far from 2^32: sums of them do not wrap.  The one
\* value that can wrap is remaining_compressed (line 321), which goes below
\* zero when the host declared fewer compressed bytes than it sends; it is
\* kept as the integer it is congruent to modulo 2^32, and compared as the
\* unsigned value it stands for.
UGreater(a, b) == IF a < 0 THEN TRUE ELSE a > b

Min(a, b) == IF a < b THEN a ELSE b

\* ---- esp_command_error values used by this file ----
ESP_OK == "ESP_OK"
ESP_NOT_IN_FLASH_MODE == "ESP_NOT_IN_FLASH_MODE"
ESP_NOT_ENOUGH_DATA == "ESP_NOT_ENOUGH_DATA"
ESP_TOO_MUCH_DATA == "ESP_TOO_MUCH_DATA"
ESP_FAILED_SPI_UNLOCK == "ESP_FAILED_SPI_UNLOCK"
ESP_FAILED_SPI_OP == "ESP_FAILED_SPI_OP"
ESP_INFLATE_ERROR == "ESP_INFLATE_ERROR"

\* ---- tinfl_status values (miniz.h): only their order matters ----
TINFL_STATUS_FAILED == -1
TINFL_STATUS_DONE == 0
TINFL_STATUS_NEEDS_MORE_INPUT == 1
TINFL_STATUS_HAS_MORE_OUTPUT == 2

VARIABLES
  fs,         \* the static struct fs
  out_buf,    \* out_buf[0 .. next_out - out_buf), the bytes buffered for flash
  busy,       \* the flash chip's WIP bit: an erase or program is in progress
  enc_latch,  \* the chip's encrypted-write-enable latch
  pc,         \* where the running handler is; "idle" between host commands
  loc,        \* locals of handle_flash_data / handle_flash_encrypt_data
  dl,         \* locals of handle_flash_deflated_data
  ret,        \* the last handler that returned, and what it returned
  cmds,       \* flash commands issued by the running (or last) handler
  sess,       \* the host and the session's history: how the host transfers
              \* (kind: plain or compressed, one way per connection), the
              \* arguments of its last begin, the stream it sends and how
              \* far it has sent it (extra: it has sent a chunk, of no
              \* bytes, after the end of the stream);
              \* the number of bytes that were in out_buf at that
              \* begin, and the failures the handlers have met from that
              \* begin on
  handed      \* history: bytes handed to the program primitive since begin

vars == <<fs, out_buf, busy, enc_latch, pc, loc, dl, ret, cmds, sess, handed>>

\* byte i (from 0) of the image the host sends, plain or as inflated stream
Image(i) == i + 1

\* ---- pure parts of the handlers ----

\* line 152
FirstEraseSector(offset) == offset \div FLASH_SECTOR_SIZE

\* a bug: the bytes before the offset in its sector are forgotten
EraseSectorCount_nooffset(total_size, offset) ==
  (total_size + FLASH_SECTOR_SIZE - 1) \div FLASH_SECTOR_SIZE

\* line 154
EraseSectorCount(total_size, offset) ==
  ((offset % FLASH_SECTOR_SIZE) + total_size + FLASH_SECTOR_SIZE - 1)
    \div FLASH_SECTOR_SIZE

\* a bug: the final block is not trimmed
ClampLength_untrimmed(length, remaining) == length

\* a bug: trimmed one byte short of what remains
ClampLength_short(length, remaining) ==
  IF length >= remaining /\ remaining > 0 THEN remaining - 1 ELSE length

\* lines 218-222: trim the final block
ClampLength(length, remaining) ==
  IF length > remaining THEN remaining ELSE length

\* line 231
LastSector(next_write, length) ==
  (next_write + length) \div FLASH_SECTOR_SIZE

\* a bug: the loop stops one sector early
MustEraseMore_strict(f, last_sector) ==
  f.remaining_erase_sector > 0 /\ f.next_erase_sector < last_sector

\* a bug: the loop does not stop when nothing is left to erase
MustEraseMore_forever(f, last_sector) ==
  f.next_erase_sector <= last_sector

\* line 232: the guard of the erase-ahead loop
MustEraseMore(f, last_sector) ==
  f.remaining_erase_sector > 0 /\ f.next_erase_sector <= last_sector

\* a bug: a block erase at every block boundary, room or not
SectorsToErase_noroom(f) ==
  IF f.next_erase_sector % SECTORS_PER_BLOCK = 0
  THEN SECTORS_PER_BLOCK
  ELSE 1

\* a bug: the block erase is never chosen
SectorsToErase_single(f) == 1

\* lines 191-198: block erase if there is room for it
SectorsToErase(f) ==
  IF f.remaining_erase_sector >= SECTORS_PER_BLOCK
     /\ f.next_erase_sector % SECTORS_PER_BLOCK = 0
  THEN SECTORS_PER_BLOCK
  ELSE 1

\* a bug: the erase cursor is not advanced
AfterErase_stuck(f, n) ==
  [f EXCEPT !.remaining_erase_sector = @ - n]

\* lines 206-207
AfterErase(f, n) ==
  [f EXCEPT !.remaining_erase_sector = @ - n,
            !.next_erase_sector = @ + n]

\* a bug: the erase is issued without looking at the WIP bit
start_next_erase_eager(f, b) ==
  IF f.remaining_erase_sector = 0 THEN [fs |-> f, busy |-> b, cmds |-> <<>>]
  ELSE LET n == SectorsToErase(f)
       IN [fs |-> AfterErase(f, n),
           busy |-> TRUE,
           cmds |-> << [c |-> "WREN", a |-> 0, n |-> 0],
                       [c |-> IF n = 1 THEN "SE" ELSE "BE",
                        a |-> f.next_erase_sector * FLASH_SECTOR_SIZE,
                        n |-> n] >>]

\* lines 182-208: start_next_erase() on state f with the chip busy or not;
\* gives the new fs, the new WIP bit and the commands issued
start_next_erase(f, b) ==
  IF f.remaining_erase_sector = 0 THEN [fs |-> f, busy |-> b, cmds |-> <<>>]
  ELSE IF b THEN [fs |-> f, busy |-> b, cmds |-> <<>>]
  ELSE LET n == SectorsToErase(f)
       IN [fs |-> AfterErase(f, n),
           busy |-> TRUE,
           cmds |-> << [c |-> "WREN", a |-> 0, n |-> 0],
                       [c |-> IF n = 1 THEN "SE" ELSE "BE",
                        a |-> f.next_erase_sector * FLASH_SECTOR_SIZE,
                        n |-> n] >>]

\* lines 57-60
is_in_flash_mode == fs.in_flash_mode

\* lines 62-65
get_flash_error == fs.last_error

\* ---- initial state: zeroed statics, next_out = out_buf ----
NoInflator == [cin |-> 0, pout |-> 0, st |-> "run"]

IdleLoc ==
  [length |-> 0, last_sector |-> 0, arg |-> 0, data |-> <<>>,
   enc |-> FALSE, caller |-> "host"]

IdleDl == [length |-> 0, status |-> TINFL_STATUS_NEEDS_MORE_INPUT]

\* what the host declares in a compressed begin: the stream's compressed
\* size, its uncompressed size or a wrong one, and an offset inside the
\* second sector (the span then takes two separate erases)
DeclaredComp == {CompLen}

DeclaredSize == {0, PlainLen - 1, PlainLen, PlainLen + 1}

DeflateOffset == {FLASH_SECTOR_SIZE + 1}

Init ==
  /\ fs = [in_flash_mode |-> FALSE, next_write |-> 0, next_erase_sector |-> 0,
           remaining |-> 0, remaining_erase_sector |-> 0, last_error |-> ESP_OK,
           inflator |-> NoInflator, remaining_compressed |-> 0]
  /\ out_buf = <<>>
  /\ busy = FALSE
  /\ enc_latch = FALSE
  /\ pc = "idle"
  /\ loc = IdleLoc
  /\ dl = IdleDl
  /\ ret = [op |-> "none", code |-> ESP_OK]
  /\ cmds = <<>>
  /\ sess \in {[offset |-> 0, total |-> 0, kind |-> k, corrupt |-> FALSE,
               hpos |-> 0, extra |-> FALSE, stale |-> 0,
               faults |-> {}] :
              k \in {"plain", "deflate"}}
  /\ handed = <<>>

\* ---- the chip ----

\* the erase or program in progress finishes
flash_completes ==
  /\ busy
  /\ busy' = FALSE
  /\ UNCHANGED <<fs, out_buf, enc_latch, pc, loc, dl, ret, cmds, sess, handed>>

\* ---- begin ----

\* lines 150-155
BeginFields(total_size, offset) ==
  [fs EXCEPT !.in_flash_mode = TRUE,
             !.next_write = offset,
             !.next_erase_sector = FirstEraseSector(offset),
             !.remaining = total_size,
             !.remaining_erase_sector = EraseSectorCount(total_size, offset),
             !.last_error = ESP_OK]

\* lines 118-146: SPIUnlock().  unlock is "ok", "read_fail" (status read
\* failed, nothing written) or "write_fail" (status write failed).  It spins
\* in spi_write_enable until the chip is ready.
UnlockBusy(unlock) == IF unlock = "read_fail" THEN busy ELSE FALSE

UnlockCmds(unlock) ==
  IF unlock = "read_fail" THEN <<>>
  ELSE << [c |-> "WREN", a |-> 0, n |-> 0], [c |-> "WRSR", a |-> 0, n |-> 0] >>

\* lines 157-161
BeginResult(unlock) ==
  IF unlock # "ok" THEN ESP_FAILED_SPI_UNLOCK ELSE ESP_OK

\* lines 157-159: the failure a begin meets
BeginFaults(unlock) ==
  IF unlock # "ok" THEN {ESP_FAILED_SPI_UNLOCK} ELSE {}

\* lines 149-162
handle_flash_begin(total_size, offset, unlock) ==
  /\ pc = "idle"
  /\ sess.kind = "plain"
  /\ fs' = BeginFields(total_size, offset)
  /\ busy' = UnlockBusy(unlock)
  /\ cmds' = UnlockCmds(unlock)
  /\ ret' = [op |-> "begin", code |-> BeginResult(unlock)]
  /\ sess' = [offset |-> offset, total |-> total_size, kind |-> "plain",
              corrupt |-> FALSE, hpos |-> 0, extra |-> FALSE,
              stale |-> Len(out_buf), faults |-> BeginFaults(unlock)]
  /\ handed' = <<>>
  /\ UNCHANGED <<out_buf, enc_latch, pc, loc, dl>>

\* ---- end ----

\* a bug: end does not look at the bytes still expected
handle_flash_end_early ==
  /\ pc = "idle"
  /\ IF ~fs.in_flash_mode
     THEN /\ ret' = [op |-> "end", code |-> ESP_NOT_IN_FLASH_MODE]
          /\ fs' = fs
     ELSE /\ ret' = [op |-> "end", code |-> fs.last_error]
          /\ fs' = [fs EXCEPT !.in_flash_mode = FALSE]
  /\ cmds' = <<>>
  /\ UNCHANGED <<out_buf, busy, enc_latch, pc, loc, dl, sess, handed>>

\* lines 347-359
handle_flash_end ==
  /\ pc = "idle"
  /\ IF ~fs.in_flash_mode
     THEN /\ ret' = [op |-> "end", code |-> ESP_NOT_IN_FLASH_MODE]
          /\ fs' = fs
     ELSE IF fs.remaining > 0
     THEN /\ ret' = [op |-> "end", code |-> ESP_NOT_ENOUGH_DATA]
          /\ fs' = fs
     ELSE /\ ret' = [op |-> "end", code |-> fs.last_error]
          /\ fs' = [fs EXCEPT !.in_flash_mode = FALSE]
  /\ cmds' = <<>>
  /\ UNCHANGED <<out_buf, busy, enc_latch, pc, loc, dl, sess, handed>>

\* ---- plain and encrypted write ----

\* the next `length` bytes of the image, as the host sends them in order
HostData(length) ==
  [i \in 1..length |-> Image(fs.next_write - sess.offset + i - 1)]

\* lines 216-231 (252-273): the locals once the length is trimmed
WriteLocals(f, length, data, enc, caller) ==
  LET len == ClampLength(length, f.remaining)
  IN [length |-> len,
      last_sector |-> LastSector(f.next_write, len),
      arg |-> length,
      data |-> SubSeq(data, 1, len),
      enc |-> enc,
      caller |-> caller]

\* lines 215-231: handle_flash_data up to its erase-ahead loop
handle_flash_data(length) ==
  /\ pc = "idle"
  /\ sess.kind = "plain"
  /\ LET w == WriteLocals(fs, length, HostData(length), FALSE, "host")
     IN IF w.length = 0
        THEN /\ pc' = "idle"
             /\ loc' = IdleLoc
             /\ ret' = [op |-> "data", code |-> "void"]
        ELSE /\ pc' = "erase_ahead"
             /\ loc' = w
             /\ ret' = ret
  /\ cmds' = <<>>
  /\ UNCHANGED <<fs, out_buf, busy, enc_latch, dl, sess, handed>>

\* lines 252-273: handle_flash_encrypt_data up to its erase-ahead loop;
\* SPI_Write_Encrypt_Enable() comes first
handle_flash_encrypt_data(length) ==
  /\ pc = "idle"
  /\ sess.kind = "plain"
  /\ enc_latch' = TRUE
  /\ LET w == WriteLocals(fs, length, HostData(length), TRUE, "host")
     IN IF w.length = 0
        THEN /\ pc' = "idle"
             /\ loc' = IdleLoc
             /\ ret' = [op |-> "data", code |-> "void"]
        ELSE /\ pc' = "erase_ahead"
             /\ loc' = w
             /\ ret' = ret
  /\ cmds' = << [c |-> "ENC_ENABLE", a |-> 0, n |-> 0] >>
  /\ UNCHANGED <<fs, out_buf, busy, dl, sess, handed>>

\* lines 232-234 (274-276): one turn of the erase-ahead loop
write_erase_ahead ==
  /\ pc = "erase_ahead"
  /\ IF MustEraseMore(fs, loc.last_sector)
     THEN LET r == start_next_erase(fs, busy)
          IN /\ fs' = r.fs
             /\ busy' = r.busy
             /\ cmds' = cmds \o r.cmds
             /\ pc' = pc
     ELSE /\ pc' = "wait_ready"
          /\ UNCHANGED <<fs, busy, cmds>>
  /\ UNCHANGED <<out_buf, enc_latch, loc, dl, ret, sess, handed>>

\* a bug: a failed program is not accounted
AfterProgram_stall(f, length, failed) ==
  IF failed THEN [f EXCEPT !.last_error = ESP_FAILED_SPI_OP]
  ELSE [f EXCEPT !.next_write = @ + length, !.remaining = @ - length]

\* a bug: a good program clears the error
AfterProgram_clears(f, length, failed) ==
  [f EXCEPT !.last_error = IF failed THEN ESP_FAILED_SPI_OP ELSE ESP_OK,
            !.next_write = @ + length,
            !.remaining = @ - length]

\* lines 239-243 (287-291): the bookkeeping after the program primitive
AfterProgram(f, length, failed) ==
  [f EXCEPT !.last_error = IF failed THEN ESP_FAILED_SPI_OP ELSE @,
            !.next_write = @ + length,
            !.remaining = @ - length]

\* the byte range handed to SPIWrite / SPI_Encrypt_Write
ProgramRange(addr, data) ==
  [i \in 1..Len(data) |-> [a |-> addr + i - 1, v |-> data[i]]]

\* a bug: the program primitive is called without the ready wait
write_program_nowait(failed, wip) ==
  /\ pc = "wait_ready"
  /\ fs' = AfterProgram(fs, loc.length, failed)
  /\ handed' = handed \o ProgramRange(fs.next_write, loc.data)
  /\ busy' = wip
  /\ enc_latch' = IF loc.enc THEN FALSE ELSE enc_latch
  /\ cmds' = cmds \o
       << [c |-> IF loc.enc THEN "EPP" ELSE "PP", a |-> fs.next_write,
           n |-> loc.length] >> \o
       (IF loc.enc THEN << [c |-> "ENC_DISABLE", a |-> 0, n |-> 0] >> ELSE <<>>)
  /\ loc' = IdleLoc
  /\ IF loc.caller = "host"
     THEN /\ pc' = "idle"
          /\ ret' = [op |-> "data", code |-> "void"]
          /\ out_buf' = out_buf
     ELSE /\ pc' = "defl_loop"
          /\ ret' = ret
          /\ out_buf' = <<>>
  /\ sess' = [sess EXCEPT !.faults =
                IF failed THEN @ \cup {ESP_FAILED_SPI_OP} ELSE @]
  /\ dl' = dl

\* lines 235-244 (277-296): the chip is ready; program, account, return.
\* failed: the primitive's result; wip: whether the ROM primitive returns
\* with the chip still programming.
write_program(failed, wip) ==
  /\ pc = "wait_ready"
  /\ ~busy
  /\ fs' = AfterProgram(fs, loc.length, failed)
  /\ handed' = handed \o ProgramRange(fs.next_write, loc.data)
  /\ busy' = wip
  /\ enc_latch' = IF loc.enc THEN FALSE ELSE enc_latch
  /\ cmds' = cmds \o
       << [c |-> IF loc.enc THEN "EPP" ELSE "PP", a |-> fs.next_write,
           n |-> loc.length] >> \o
       (IF loc.enc THEN << [c |-> "ENC_DISABLE", a |-> 0, n |-> 0] >> ELSE <<>>)
  /\ loc' = IdleLoc
  /\ IF loc.caller = "host"
     THEN /\ pc' = "idle"
          /\ ret' = [op |-> "data", code |-> "void"]
          /\ out_buf' = out_buf
     ELSE \* line 330, back in handle_flash_deflated_data
          /\ pc' = "defl_loop"
          /\ ret' = ret
          /\ out_buf' = <<>>
  /\ sess' = [sess EXCEPT !.faults =
                IF failed THEN @ \cup {ESP_FAILED_SPI_OP} ELSE @]
  /\ dl' = dl

\* ---- the inflate engine (miniz tinfl), by its call contract ----

\* a corrupt stream differs from the valid one in its byte CorruptAt (from 1)
CorruptAt == CompLen - 1

\* One call of tinfl_decompress: the set of possible results
\* [in_bytes, out_bytes, status, inflator] for an engine in state infl that is
\* given in_bytes of input, out_space of output room and the flag
\* TINFL_FLAG_HAS_MORE_INPUT (more).
\*  - a finished or failed engine stays so and touches nothing;
\*  - it consumes and emits any amounts within what it is given, and at least
\*    one byte in all; no output before the first input byte (zlib header);
\*    the last input byte (Adler-32 trailer) only once all output is out,
\*    and then the status is DONE;
\*  - it stops early only for lack of room (HAS_MORE_OUTPUT: room used up,
\*    output pending) or of input (NEEDS_MORE_INPUT: input used up); without
\*    `more` a lack of input may also be reported as a failure;
\*  - the corrupt byte makes it fail.
tinfl_decompress(infl, corrupt, in_bytes, out_space, more) ==
  IF infl.st = "done"
  THEN {[in_bytes |-> 0, out_bytes |-> 0, status |-> TINFL_STATUS_DONE,
         inflator |-> infl]}
  ELSE IF infl.st = "failed"
  THEN {[in_bytes |-> 0, out_bytes |-> 0, status |-> TINFL_STATUS_FAILED,
         inflator |-> infl]}
  ELSE LET limit == IF corrupt THEN CorruptAt ELSE CompLen
           Status(k, m) ==
             LET cin == infl.cin + k
                 pout == infl.pout + m
             IN IF corrupt /\ cin = CorruptAt THEN {TINFL_STATUS_FAILED}
                ELSE IF cin = CompLen THEN {TINFL_STATUS_DONE}
                ELSE (IF k = in_bytes
                      THEN {TINFL_STATUS_NEEDS_MORE_INPUT} \cup
                           (IF more THEN {} ELSE {TINFL_STATUS_FAILED})
                      ELSE {}) \cup
                     (IF m = out_space /\ pout < PlainLen
                      THEN {TINFL_STATUS_HAS_MORE_OUTPUT}
                      ELSE {})
           St(s) == IF s = TINFL_STATUS_DONE THEN "done"
                    ELSE IF s = TINFL_STATUS_FAILED THEN "failed"
                    ELSE "run"
       IN { [in_bytes |-> k, out_bytes |-> m, status |-> s,
             inflator |-> [cin |-> infl.cin + k, pout |-> infl.pout + m,
                           st |-> St(s)]] :
            <<k, m, s>> \in
              { x \in (0..Min(in_bytes, limit - infl.cin))
                      \X (0..Min(out_space, PlainLen - infl.pout))
                      \X {TINFL_STATUS_FAILED, TINFL_STATUS_DONE,
                          TINFL_STATUS_NEEDS_MORE_INPUT,
                          TINFL_STATUS_HAS_MORE_OUTPUT} :
                  /\ x[1] + x[2] > 0
                  /\ (infl.pout + x[2] > 0 => infl.cin + x[1] > 0)
                  /\ (infl.cin + x[1] = CompLen => infl.pout + x[2] = PlainLen)
                  /\ x[3] \in Status(x[1], x[2]) } }

\* tinfl_init
tinfl_init == NoInflator

\* ---- compressed write ----

\* lines 164-169.  corrupt: which stream the host is going to send
handle_flash_deflated_begin(uncompressed_size, compressed_size, offset, unlock, corrupt) ==
  /\ pc = "idle"
  /\ sess.kind = "deflate"
  /\ fs' = [BeginFields(uncompressed_size, offset) EXCEPT
              !.inflator = tinfl_init,
              !.remaining_compressed = compressed_size]
  /\ busy' = UnlockBusy(unlock)
  /\ cmds' = UnlockCmds(unlock)
  /\ ret' = [op |-> "begin", code |-> BeginResult(unlock)]
  /\ sess' = [offset |-> offset, total |-> uncompressed_size,
              kind |-> "deflate", corrupt |-> corrupt, hpos |-> 0,
              extra |-> FALSE, stale |-> Len(out_buf),
              faults |-> BeginFaults(unlock)]
  /\ handed' = <<>>
  /\ UNCHANGED <<out_buf, enc_latch, pc, loc, dl>>

\* lines 300-303: the host hands the next `length` bytes of its stream
handle_flash_deflated_data(length) ==
  /\ pc = "idle"
  /\ sess.kind = "deflate"
  /\ sess.hpos + length <= CompLen
  /\ dl' = [length |-> length, status |-> TINFL_STATUS_NEEDS_MORE_INPUT]
  /\ sess' = [sess EXCEPT !.hpos = @ + length,
                           !.extra = @ \/ sess.hpos = CompLen]
  /\ pc' = "defl_loop"
  /\ cmds' = <<>>
  /\ UNCHANGED <<fs, out_buf, busy, enc_latch, loc, ret, handed>>

\* line 305
DeflateLoopGuard ==
  dl.length > 0 /\ fs.remaining > 0 /\ dl.status > TINFL_STATUS_DONE

\* a bug: whatever is buffered is flushed at once
MustFlush_eager(status, bytes_in_out_buf) ==
  status <= TINFL_STATUS_DONE \/ bytes_in_out_buf > 0

\* line 327
MustFlush(status, bytes_in_out_buf) ==
  status <= TINFL_STATUS_DONE \/ bytes_in_out_buf = OUT_BUF_SIZE

\* lines 306-331: one turn of the inflate loop, up to the flush's
\* erase-ahead loop when it flushes
deflate_turn ==
  /\ pc = "defl_loop"
  /\ DeflateLoopGuard
  /\ LET more == UGreater(fs.remaining_compressed, dl.length)
         e == start_next_erase(fs, busy)
     IN \E o \in tinfl_decompress(fs.inflator, sess.corrupt, dl.length,
                                  OUT_BUF_SIZE - Len(out_buf), more) :
          LET f2 == [e.fs EXCEPT !.inflator = o.inflator,
                                 !.remaining_compressed = @ - o.in_bytes]
              buf == out_buf \o
                     [i \in 1..o.out_bytes |-> Image(fs.inflator.pout + i - 1)]
              w == WriteLocals(f2, Len(buf), buf, FALSE, "deflate")
          IN /\ fs' = f2
             /\ busy' = e.busy
             /\ cmds' = cmds \o e.cmds
             /\ dl' = [length |-> dl.length - o.in_bytes, status |-> o.status]
             /\ IF ~MustFlush(o.status, Len(buf))
                THEN /\ out_buf' = buf
                     /\ pc' = "defl_loop"
                     /\ loc' = loc
                ELSE IF w.length = 0
                THEN /\ out_buf' = <<>>
                     /\ pc' = "defl_loop"
                     /\ loc' = loc
                ELSE /\ out_buf' = buf
                     /\ pc' = "erase_ahead"
                     /\ loc' = w
  /\ UNCHANGED <<enc_latch, ret, sess, handed>>

\* lines 334-344: the error left by the call
DeflateError(status, remaining, last_error) ==
  LET e1 == IF status < TINFL_STATUS_DONE THEN ESP_INFLATE_ERROR
            ELSE last_error
      e2 == IF status = TINFL_STATUS_DONE /\ remaining > 0
            THEN ESP_NOT_ENOUGH_DATA ELSE e1
  IN IF status # TINFL_STATUS_DONE /\ remaining = 0
     THEN ESP_TOO_MUCH_DATA ELSE e2

\* lines 334, 339, 342: the conditions that hold after the loop
DeflateFaults(status, remaining) ==
  (IF status < TINFL_STATUS_DONE THEN {ESP_INFLATE_ERROR} ELSE {}) \cup
  (IF status = TINFL_STATUS_DONE /\ remaining > 0
   THEN {ESP_NOT_ENOUGH_DATA} ELSE {}) \cup
  (IF status # TINFL_STATUS_DONE /\ remaining = 0
   THEN {ESP_TOO_MUCH_DATA} ELSE {})

\* lines 305, 334-345: the loop is left; terminal bookkeeping and return
deflate_return ==
  /\ pc = "defl_loop"
  /\ ~DeflateLoopGuard
  /\ fs' = [fs EXCEPT !.last_error = DeflateError(dl.status, fs.remaining, @)]
  /\ pc' = "idle"
  /\ dl' = IdleDl
  /\ cmds' = <<>>
  /\ ret' = [op |-> "data", code |-> "void"]
  /\ sess' = [sess EXCEPT !.faults =
                @ \cup DeflateFaults(dl.status, fs.remaining)]
  /\ UNCHANGED <<out_buf, busy, enc_latch, loc, handed>>

UnlockResult == {"ok", "read_fail", "write_fail"}

\* a begin of either kind
BeginStep ==
  \/ \E t \in 0..MaxTotal, o \in 0..MaxOffset, u \in UnlockResult :
        handle_flash_begin(t, o, u)
  \/ \E t \in DeclaredSize, o \in DeflateOffset, c \in DeclaredComp,
        u \in UnlockResult, x \in BOOLEAN :
        handle_flash_deflated_begin(t, c, o, u, x)

\* the same steps, told by their effect: only a begin and the chip end at
\* rest with a begin as the last handler returned
IsBegin ==
  pc = "idle" /\ pc' = "idle" /\ ret'.op = "begin" /\ ~flash_completes

Next ==
  \/ \E t \in 0..MaxTotal, o \in 0..MaxOffset, u \in UnlockResult :
        handle_flash_begin(t, o, u)
  \/ \E t \in DeclaredSize, o \in DeflateOffset, c \in DeclaredComp,
        u \in UnlockResult, x \in BOOLEAN :
        handle_flash_deflated_begin(t, c, o, u, x)
  \/ handle_flash_end
  \/ flash_completes
  \/ \E n \in 0..MaxLen : handle_flash_data(n)
  \/ \E n \in 0..MaxLen : handle_flash_encrypt_data(n)
  \/ \E n \in 0..CompLen : handle_flash_deflated_data(n)
  \/ write_erase_ahead
  \/ \E f \in BOOLEAN, w \in BOOLEAN : write_program(f, w)
  \/ deflate_turn
  \/ deflate_return

\* ---- properties ----

CeilDiv(n, d) == CHOOSE k \in 0..n : k * d >= n /\ (k = 0 \/ (k - 1) * d < n)

\* the handler has left its erase-ahead loop and waits to call the program
\* primitive on [next_write, next_write + length)
AboutToProgram == pc = "wait_ready"

\* C1: when the program primitive is about to be issued for the range
\* [next_write, next_write + length), the erase frontier covers the range:
\* next_erase_sector * FLASH_SECTOR_SIZE >= next_write + length.
C1_EraseFrontierCoversWrite ==
  AboutToProgram =>
    fs.next_erase_sector * FLASH_SECTOR_SIZE >= fs.next_write + loc.length

\* a write that ends exactly on a sector boundary, after a block erase
C1_Witness ==
  /\ AboutToProgram
  /\ (fs.next_write + loc.length) % FLASH_SECTOR_SIZE = 0
  /\ \E i \in 1..Len(cmds) : cmds[i].c = "BE"

\* C2: after a begin whose unlock failed (it returned
\* ESP_FAILED_SPI_UNLOCK) the session is not active.
C2_FailedBeginInactive ==
  (pc = "idle" /\ ret = [op |-> "begin", code |-> ESP_FAILED_SPI_UNLOCK])
    => ~is_in_flash_mode

\* C3: end() returns ESP_NOT_IN_FLASH_MODE when not in flash mode;
\* ESP_NOT_ENOUGH_DATA when in flash mode with bytes remaining, changing
\* nothing; otherwise it leaves flash mode, changes no other field and
\* returns last_error, which is ESP_OK if no data handler met an error.
C3_EndContract ==
  [][handle_flash_end =>
       /\ ret'.op = "end"
       /\ ~fs.in_flash_mode =>
            ret'.code = ESP_NOT_IN_FLASH_MODE /\ fs' = fs
       /\ (fs.in_flash_mode /\ fs.remaining > 0) =>
            ret'.code = ESP_NOT_ENOUGH_DATA /\ fs' = fs
       /\ (fs.in_flash_mode /\ fs.remaining = 0) =>
            /\ fs' = [fs EXCEPT !.in_flash_mode = FALSE]
            /\ ret'.code = fs.last_error
            /\ (sess.faults = {} => ret'.code = ESP_OK)
       /\ UNCHANGED <<out_buf, busy, enc_latch, handed>>]_vars

\* begin(total > 0, offset) followed directly by end()
C3_Witness ==
  /\ ret = [op |-> "end", code |-> ESP_NOT_ENOUGH_DATA]
  /\ fs.in_flash_mode
  /\ sess.total > 0
  /\ fs.remaining = sess.total
  /\ handed = <<>>

\* C4: a failing program primitive in a plain write still advances
\* next_write and lowers remaining by the trimmed length of the write and
\* sets last_error to ESP_FAILED_SPI_OP; once all declared bytes are
\* delivered by plain writes, end() returns ESP_FAILED_SPI_OP and
\* get_flash_error() gives the same.
C4_FailedProgramAccounted ==
  [][/\ (write_program(TRUE, TRUE) \/ write_program(TRUE, FALSE)) =>
          /\ loc.length = Min(loc.arg, fs.remaining)
          /\ fs'.next_write = fs.next_write + loc.length
          /\ fs'.remaining = fs.remaining - loc.length
          /\ fs'.last_error = ESP_FAILED_SPI_OP
     /\ (/\ handle_flash_end
         /\ sess.kind = "plain"
         /\ fs.in_flash_mode
         /\ fs.remaining = 0
         /\ ESP_FAILED_SPI_OP \in sess.faults) =>
          /\ ret'.code = ESP_FAILED_SPI_OP
          /\ get_flash_error' = ESP_FAILED_SPI_OP]_vars

\* begin(total, 0), failing writes of all the bytes, end()
C4_Witness ==
  /\ ret = [op |-> "end", code |-> ESP_FAILED_SPI_OP]
  /\ sess.kind = "plain"
  /\ sess.offset = 0
  /\ sess.total = MaxTotal
  /\ Len(handed) = MaxTotal
  /\ get_flash_error = ESP_FAILED_SPI_OP

\* C5: right after begin(total_size, offset): in flash mode, next_write =
\* offset, remaining = total_size, last_error = ESP_OK, next_erase_sector =
\* offset / FLASH_SECTOR_SIZE and remaining_erase_sector =
\* ceil((offset mod FLASH_SECTOR_SIZE + total_size) / FLASH_SECTOR_SIZE),
\* whatever the state before.
C5_BeginState ==
  [][IsBegin =>
       /\ fs'.in_flash_mode
       /\ fs'.next_write = sess'.offset
       /\ fs'.remaining = sess'.total
       /\ fs'.last_error = ESP_OK
       /\ fs'.next_erase_sector * FLASH_SECTOR_SIZE <= sess'.offset
       /\ (fs'.next_erase_sector + 1) * FLASH_SECTOR_SIZE > sess'.offset
       /\ fs'.remaining_erase_sector =
            CeilDiv((sess'.offset % FLASH_SECTOR_SIZE) + sess'.total,
                    FLASH_SECTOR_SIZE)]_vars

\* a begin over two sectors and a part of a third, after an encrypted
\* write of an earlier session
C5_Witness ==
  /\ pc = "idle"
  /\ ret.op = "begin"
  /\ (sess.offset % FLASH_SECTOR_SIZE) + sess.total > 2 * FLASH_SECTOR_SIZE
  /\ fs.remaining_erase_sector = 3
  /\ fs.remaining = sess.total
  /\ enc_latch

\* C6: a plain write programs exactly min(length, remaining) bytes, so
\* remaining becomes 0 when length exceeds it; when that trimmed length is
\* zero the call changes no field of fs and issues no flash command.
C6_WriteClamped ==
  [][/\ ((write_program(TRUE, TRUE) \/ write_program(TRUE, FALSE)
          \/ write_program(FALSE, TRUE) \/ write_program(FALSE, FALSE))
         /\ loc.caller = "host" /\ ~loc.enc) =>
          /\ Len(handed') - Len(handed) = Min(loc.arg, fs.remaining)
          /\ cmds'[Len(cmds')].n = Min(loc.arg, fs.remaining)
          /\ fs'.remaining = fs.remaining - Min(loc.arg, fs.remaining)
          /\ (loc.arg > fs.remaining => fs'.remaining = 0)
     /\ (pc = "idle" /\ ~IsBegin /\ ~flash_completes) =>
          \A n \in 0..MaxLen :
            /\ (handle_flash_data(n) /\ Min(n, fs.remaining) = 0) =>
                  /\ fs' = fs
                  /\ pc' = "idle"
                  /\ cmds' = <<>>
                  /\ UNCHANGED <<busy, enc_latch, out_buf, handed>>
            /\ (handle_flash_data(n) /\ Min(n, fs.remaining) > 0) =>
                  pc' = "erase_ahead" /\ loc'.arg = n]_vars

\* a write longer than what remains, trimmed and about to be programmed
C6_Witness ==
  /\ AboutToProgram
  /\ loc.caller = "host"
  /\ ~loc.enc
  /\ loc.arg > fs.remaining
  /\ loc.length = fs.remaining
  /\ fs.remaining < sess.total

\* C7 as stated: remaining = 0 implies remaining_erase_sector = 0, for
\* every (offset, total_size).
C7_Original ==
  fs.remaining = 0 => fs.remaining_erase_sector = 0

\* C7 amended: remaining = 0 implies remaining_erase_sector = 0, except in
\* a session begun with total_size = 0 at an offset that is not
\* sector-aligned (begin then counts one sector, and no write erases it).
C7_EraseDoneWhenBytesDone ==
  (fs.remaining = 0
   /\ ~(sess.total = 0 /\ sess.offset % FLASH_SECTOR_SIZE # 0))
    => fs.remaining_erase_sector = 0

\* all bytes written in a session at an unaligned offset
C7_Witness ==
  /\ fs.remaining = 0
  /\ sess.total > FLASH_SECTOR_SIZE
  /\ sess.offset % FLASH_SECTOR_SIZE # 0
  /\ Len(handed) = sess.total
  /\ fs.remaining_erase_sector = 0

\* C8 as stated: once last_error is not ESP_OK, no step but a begin
\* changes its value.
C8_Original ==
  [][(fs.last_error # ESP_OK /\ ~IsBegin)
       => fs'.last_error = fs.last_error]_vars

\* C8 amended: once last_error is not ESP_OK, no data handler and no end()
\* sets it back to ESP_OK before the next begin; a later failure may
\* replace it by its own code (it is the last error, not the first).
C8_ErrorNotCleared ==
  [][(fs.last_error # ESP_OK /\ ~IsBegin)
       => fs'.last_error # ESP_OK]_vars

\* a second, different error has replaced the first
C8_Witness ==
  /\ ESP_FAILED_SPI_OP \in sess.faults
  /\ fs.last_error \notin {ESP_OK, ESP_FAILED_SPI_OP}
  /\ ret.op = "data"

\* C9 as stated: in a running session of total_size > 0, next_write stays
\* in [offset, offset + total_size).
C9_Original ==
  (fs.in_flash_mode /\ sess.total > 0) =>
    (sess.offset <= fs.next_write /\ fs.next_write < sess.offset + sess.total)

\* C9 amended: next_write never decreases within a session and stays in
\* [offset, offset + total_size], reaching offset + total_size exactly when
\* no bytes remain.
C9_CursorInSpan ==
  /\ [](/\ sess.offset <= fs.next_write
        /\ fs.next_write <= sess.offset + sess.total
        /\ fs.next_write = sess.offset + sess.total - fs.remaining)
  /\ [][~IsBegin => fs'.next_write >= fs.next_write]_vars

\* the cursor at the end of the span, after several writes
C9_Witness ==
  /\ fs.in_flash_mode
  /\ sess.total > 1
  /\ fs.next_write = sess.offset + sess.total
  /\ Len(handed) = sess.total
  /\ ret.op = "data"

\* the plaintext of the stream
Plaintext == [i \in 1..PlainLen |-> Image(i - 1)]

\* C10: once the host has sent the whole of a valid stream whose declared
\* sizes are right, the byte ranges handed to the program primitive join
\* into the plaintext, at the addresses from offset on.
C10_RoundTrip ==
  (/\ pc = "idle"
   /\ ret.op = "data"
   /\ sess.kind = "deflate"
   /\ ~sess.corrupt
   /\ sess.total = PlainLen
   /\ sess.hpos = CompLen)
    => handed = ProgramRange(sess.offset, Plaintext)

\* C11: right after every deflated begin the fill offset of the output
\* buffer (next_out - out_buf) is zero: nothing buffered in an earlier
\* session is left to be flushed in this one.
C11_BufferEmptyAfterBegin ==
  (pc = "idle" /\ ret.op = "begin" /\ sess.kind = "deflate")
    => Len(out_buf) = 0

\* C12: every call of the encrypted write, a call whose trimmed length is
\* zero included, returns with the encrypted-write latch disabled.
C12_LatchOffAtReturn ==
  pc = "idle" => ~enc_latch

\* C13: at the end of a deflated data call at most one of the three
\* terminal conditions (lines 334, 339, 342) holds.
C13_TerminalExclusive ==
  (pc = "defl_loop" /\ ~DeflateLoopGuard)
    => Cardinality(DeflateFaults(dl.status, fs.remaining)) <= 1

\* the flash commands a step issues: what it appends to the running
\* handler's commands, or all of cmds' when a handler starts
IssuedNow ==
  IF Len(cmds') >= Len(cmds) /\ SubSeq(cmds', 1, Len(cmds)) = cmds
  THEN SubSeq(cmds', Len(cmds) + 1, Len(cmds'))
  ELSE cmds'

EraseCmd(c) == c.c \in {"SE", "BE"}

\* C14: a step of start_next_erase that issues an erase issues one erase
\* command, after a write enable, at next_erase_sector: a block erase of
\* SECTORS_PER_BLOCK sectors iff remaining_erase_sector >= SECTORS_PER_BLOCK
\* and next_erase_sector is a multiple of SECTORS_PER_BLOCK, otherwise a
\* sector erase of one sector; next_erase_sector grows and
\* remaining_erase_sector shrinks by the number of sectors erased.  The
\* erase fields change in no other step but a begin.
C14_EraseUnit ==
  [][LET block == /\ fs.remaining_erase_sector >= SECTORS_PER_BLOCK
                   /\ fs.next_erase_sector % SECTORS_PER_BLOCK = 0
         n == IF block THEN SECTORS_PER_BLOCK ELSE 1
         erases == {i \in 1..Len(IssuedNow) : EraseCmd(IssuedNow[i])}
     IN /\ erases # {} =>
             /\ IssuedNow =
                  << [c |-> "WREN", a |-> 0, n |-> 0],
                     [c |-> IF block THEN "BE" ELSE "SE",
                      a |-> fs.next_erase_sector * FLASH_SECTOR_SIZE,
                      n |-> n] >>
             /\ fs'.next_erase_sector = fs.next_erase_sector + n
             /\ fs'.remaining_erase_sector = fs.remaining_erase_sector - n
        /\ (erases = {} /\ ~IsBegin) =>
             /\ fs'.next_erase_sector = fs.next_erase_sector
             /\ fs'.remaining_erase_sector = fs.remaining_erase_sector]_vars

\* a session of exactly one block at an aligned offset: the first erase is
\* one block command and brings remaining_erase_sector to 0
C14_Witness ==
  /\ pc = "erase_ahead"
  /\ handed = <<>>
  /\ EraseSectorCount(sess.total, sess.offset) = SECTORS_PER_BLOCK
  /\ Len(cmds) = 2
  /\ cmds[2] = [c |-> "BE", a |-> sess.offset, n |-> SECTORS_PER_BLOCK]
  /\ fs.remaining_erase_sector = 0

ProgramCmd(c) == c.c \in {"PP", "EPP"}

\* C15: start_next_erase called with nothing left to erase, or with the
\* chip busy, returns at once: it issues no write enable and no erase and
\* leaves next_erase_sector, remaining_erase_sector and the WIP bit as they
\* are, in the erase-ahead loop and in the turns of the inflate loop.
C15_EraseNoOp ==
  [][(/\ \/ pc = "defl_loop" /\ DeflateLoopGuard
         \/ pc = "erase_ahead" /\ MustEraseMore(fs, loc.last_sector)
      /\ ~flash_completes
      /\ (busy \/ fs.remaining_erase_sector = 0)) =>
       /\ fs'.next_erase_sector = fs.next_erase_sector
       /\ fs'.remaining_erase_sector = fs.remaining_erase_sector
       /\ busy' = busy
       /\ IssuedNow = <<>>]_vars

\* a flush whose turn called start_next_erase while the program of the
\* call before was still in progress: sectors remain, nothing was issued
C15_Witness ==
  /\ pc = "erase_ahead"
  /\ loc.caller = "deflate"
  /\ busy
  /\ cmds = <<>>
  /\ fs.remaining_erase_sector > 0

\* C16: no erase and no program command is issued while an erase or a
\* program issued before is still in progress (WIP set).
C16_NoCommandWhileBusy ==
  [][(\E i \in 1..Len(IssuedNow) :
        EraseCmd(IssuedNow[i]) \/ ProgramCmd(IssuedNow[i])) => ~busy]_vars

\* one deflated data call: an opportunistic erase, the program of a flush,
\* and the next opportunistic erase, still in progress
C16_Witness ==
  /\ pc = "defl_loop"
  /\ busy
  /\ \E i, j, k \in 1..Len(cmds) :
        /\ i < j /\ j < k
        /\ EraseCmd(cmds[i]) /\ ProgramCmd(cmds[j]) /\ EraseCmd(cmds[k])

\* C17: the fill level of out_buf never exceeds OUT_BUF_SIZE; a turn of the
\* inflate loop flushes the buffer exactly when it has become full or the
\* inflator has reported completion or an error; after the program of a
\* flush the fill offset is zero; and a call that returns leaves what is
\* buffered in place.
C17_BufferFlush ==
  /\ [](Len(out_buf) <= OUT_BUF_SIZE)
  /\ [][(pc = "defl_loop" /\ DeflateLoopGuard /\ ~flash_completes) =>
          LET fill == Len(out_buf) + fs'.inflator.pout - fs.inflator.pout
              must == dl'.status <= TINFL_STATUS_DONE \/ fill = OUT_BUF_SIZE
          IN /\ fill <= OUT_BUF_SIZE
             /\ (must /\ fill > 0) =>
                  /\ pc' = "erase_ahead"
                  /\ loc'.caller = "deflate"
                  /\ loc'.arg = fill
                  /\ SubSeq(out_buf', 1, Len(out_buf)) = out_buf
             /\ (must /\ fill = 0) => pc' = "defl_loop" /\ out_buf' = <<>>
             /\ ~must =>
                  /\ pc' = "defl_loop"
                  /\ Len(out_buf') = fill
                  /\ SubSeq(out_buf', 1, Len(out_buf)) = out_buf]_vars
  /\ [][(pc = "wait_ready" /\ pc' # pc /\ loc.caller = "deflate") =>
          out_buf' = <<>> /\ pc' = "defl_loop"]_vars
  /\ [][(pc = "defl_loop" /\ ~DeflateLoopGuard /\ ~flash_completes) =>
          out_buf' = out_buf /\ pc' = "idle"]_vars

\* after a flush of a full buffer, a call has returned with the inflator
\* waiting for input and one byte buffered
C17_Witness ==
  /\ pc = "idle"
  /\ ret.op = "data"
  /\ sess.stale = 0
  /\ fs.inflator.st = "run"
  /\ Len(handed) = OUT_BUF_SIZE
  /\ Len(out_buf) > 0
  /\ Len(out_buf) < OUT_BUF_SIZE

\* C18: once the host has sent, in any chunks, the whole of a valid stream
\* of exactly the declared compressed size that inflates to exactly the
\* declared uncompressed size, and nothing after it, and no flash operation
\* has failed, no bytes remain and last_error is ESP_OK (so that end()
\* returns ESP_OK).
C18_ValidStreamEndsOk ==
  (/\ pc = "idle"
   /\ ret.op = "data"
   /\ sess.kind = "deflate"
   /\ ~sess.corrupt
   /\ sess.total = PlainLen
   /\ sess.hpos = CompLen
   /\ ~sess.extra
   /\ sess.faults \cap {ESP_FAILED_SPI_UNLOCK, ESP_FAILED_SPI_OP} = {})
    => (fs.remaining = 0 /\ fs.last_error = ESP_OK)

\* the sectors of the declared span: [SpanFirst, SpanEnd)
SpanFirst == sess.offset \div FLASH_SECTOR_SIZE

SpanEnd ==
  SpanFirst +
    CeilDiv((sess.offset % FLASH_SECTOR_SIZE) + sess.total, FLASH_SECTOR_SIZE)

\* C19: within a session next_erase_sector never decreases,
\* remaining_erase_sector is never negative, their sum stays what it was
\* right after begin (the end of the span), every erase command erases
\* sectors of the span only, and none of them holds a byte address
\* programmed earlier in the session.
C19_EraseInsideSpan ==
  /\ [](/\ fs.remaining_erase_sector >= 0
        /\ fs.next_erase_sector + fs.remaining_erase_sector = SpanEnd
        /\ fs.next_erase_sector >= SpanFirst)
  /\ [][~IsBegin => fs'.next_erase_sector >= fs.next_erase_sector]_vars
  /\ [][\A i \in 1..Len(IssuedNow) :
          EraseCmd(IssuedNow[i]) =>
            LET first == IssuedNow[i].a \div FLASH_SECTOR_SIZE
                end == first + IssuedNow[i].n
            IN /\ IssuedNow[i].a = first * FLASH_SECTOR_SIZE
               /\ IssuedNow[i].n >= 1
               /\ SpanFirst <= first
               /\ end <= SpanEnd
               /\ \A j \in 1..Len(handed) :
                    \/ handed[j].a < first * FLASH_SECTOR_SIZE
                    \/ handed[j].a >= end * FLASH_SECTOR_SIZE]_vars

\* a plain write whose erase-ahead loop has erased the sector after the
\* ones programmed earlier in the session
C19_Witness ==
  /\ pc = "wait_ready"
  /\ sess.kind = "plain"
  /\ handed # <<>>
  /\ \E i \in 1..Len(cmds) :
        EraseCmd(cmds[i]) /\ cmds[i].a > handed[Len(handed)].a

Spec == Init /\ [][Next]_vars

\* The same program with its scheduling: the stub is one thread that runs
\* the handler it is in (each step of a running handler is taken), and a
\* busy chip finishes its operation.  Nothing is assumed of the host.
HandlerStep ==
  \/ write_erase_ahead
  \/ \E f \in BOOLEAN, w \in BOOLEAN : write_program(f, w)
  \/ deflate_turn
  \/ deflate_return

FairSpec ==
  /\ Spec
  /\ WF_vars(flash_completes)
  /\ WF_vars(HandlerStep)

\* C20: if a busy chip always becomes ready, every data call returns (the
\* stub is always back between two host commands at some later time); the
\* erase-ahead loop is left only when the erase frontier has passed the last
\* sector of the write or nothing is left to erase, and the ready wait is
\* left with the chip ready and the program primitive issued once.
C20_CallsReturn ==
  /\ []<>(pc = "idle")
  /\ [][(pc = "erase_ahead" /\ pc' # pc) =>
          /\ pc' = "wait_ready"
          /\ \/ fs.remaining_erase_sector = 0
             \/ fs.next_erase_sector > loc.last_sector]_vars
  /\ [][(pc = "wait_ready" /\ pc' # pc) =>
          /\ ~busy
          /\ Cardinality({i \in 1..Len(cmds') : ProgramCmd(cmds'[i])})
               = 1 + Cardinality({i \in 1..Len(cmds) : ProgramCmd(cmds[i])})
          /\ loc.caller = "host" => pc' = "idle"]_vars

\* a write that had to wait for its own erases has returned
C20_Witness ==
  /\ pc = "idle"
  /\ ret.op = "data"
  /\ sess.kind = "plain"
  /\ Len(cmds) = 5
  /\ EraseCmd(cmds[2])
  /\ EraseCmd(cmds[4])
  /\ ProgramCmd(cmds[5])
====
